---- MODULE Spec2Model ----
(***************************************************************************)
(* A model of IndexedVec<T> (src/src/lib.rs): a vector that hands out one  *)
(* Index per stored element, reuses the positions of removed elements and  *)
(* stamps every Index with the instance number of the vector that issued   *)
(* it.  Positions are 0-based as in the source; mem is a TLA+ sequence, so *)
(* position i is element i + 1 of it.                                      *)
(***************************************************************************)
EXTENDS Integers, Sequences, FiniteSets, TLC

\* ------------------------------------------------------------------ bounds
\* Largest mem.len() an insertion is allowed to produce.
MaxLen == 4
\* Number of values the caller creates and passes in (add, push, swap).
MaxVals == 4
\* Largest capacity given to with_capacity.
MaxHint == 2
\* How far beyond the requested minimum the allocator may round a new capacity.
GrowSlack == 1
\* usize::MAX of the scaled-down machine word: INSTANCE_ID wraps past it.
UsizeMax == 1
\* Number of IndexedVecs created in one run of the multi-instance specification.
MaxArenas == UsizeMax + 2
\* Number of owners that share one vector by reference.
MaxOwners == 2
\* Largest mem.len() in the multi-instance specification.
IsoMaxLen == 1
\* Number of values the caller creates in the multi-instance specification.
IsoMaxVals == 2

\* ------------------------------------------------------------ the program
\* The bit pattern mem::zeroed() produces: no value of the caller has it.
Zeroed == 0

\* The values the caller owns and passes in, each a distinct object.
Vals == 1..MaxVals

\* The program variables that can hold an IndexedVec.
Handles == {"A", "B"}

VARIABLES
    INSTANCE_ID,  \* the static counter
    arena,        \* handle -> IndexedVec, for the handles that hold one
    serial,       \* ghost: handle -> ordinal of the with_capacity call that made it
    created,      \* ghost: number of with_capacity calls so far
    held,         \* ghost: live Index (with its issuer) -> value last stored under it
    nextVal,      \* ghost: the next value the caller will create
    dropped,      \* ghost: value -> number of times it was finalized
    returned,     \* ghost: values handed back to the caller by take and swap
    freed,        \* ghost: handle -> positions freed since the last add on it
    last,         \* the last call: its name, arguments, result, whether it panicked
    ub,           \* an unchecked access went outside mem
    owners        \* Index -> its owner's state, once the vector is shared by reference

vars == <<INSTANCE_ID, arena, serial, created, held, nextVal, dropped, returned,
          freed, last, ub, owners>>

\* slice element i (0-based)
At(mem, i) == mem[i + 1]

\* the smallest element of a non-empty set of positions: BitSet::iter().nth(0)
Lowest(S) == CHOOSE x \in S : \A y \in S : x <= y

\* Index(instance, position)
Index(ins, i) == [ins |-> ins, pos |-> i]

\* A call as the caller sees it: the method, the vector, the Index given or
\* returned (with the ordinal of the vector that issued it), the value given,
\* the value returned and whether it panicked; holes is, for add, the positions
\* freed since the last add that are still open, and for drop the positions
\* whose contents were forgotten.
Call(op, h, index, value, ret, panic, holes) ==
    [op |-> op, h |-> h, index |-> index, value |-> value, ret |-> ret,
     panic |-> panic, holes |-> holes]

\* an Index together with the ordinal of the vector that issued it
Key(x, by) == [ins |-> x.ins, pos |-> x.pos, by |-> by]

NoIndex == Index(0, 0)
NoKey == Key(NoIndex, 0)

\* AtomicUsize::fetch_add(1): the new counter, wrapping at usize::MAX
fetch_add(counter) == IF counter = UsizeMax THEN 0 ELSE counter + 1

\* IndexedVec::with_capacity, given the value fetch_add returned
with_capacity(capacity, instance) ==
    [mem |-> <<>>, cap |-> capacity, instance |-> instance, open |-> {}]

\* Vec::reserve(additional): the capacities it may leave
Reserve(self, additional) ==
    IF self.cap - Len(self.mem) >= additional
    THEN {self.cap}
    ELSE (Len(self.mem) + additional)..(Len(self.mem) + additional + GrowSlack)

\* Vec::push: the capacities it may leave
PushCaps(self) ==
    IF Len(self.mem) = self.cap
    THEN (Len(self.mem) + 1)..(Len(self.mem) + 1 + GrowSlack)
    ELSE {self.cap}

\* a do_push that inserts at the front, shifting every element
do_push_front(self, value) ==
    { [self  |-> [self EXCEPT !.mem = <<value>> \o @, !.cap = c],
       index |-> [ins |-> self.instance, pos |-> 0]] : c \in PushCaps(self) }

\* IndexedVec::do_push: the possible outcomes
do_push(self, value) ==
    { [self  |-> [self EXCEPT !.mem = Append(@, value), !.cap = c],
       index |-> Index(self.instance, Len(self.mem))] : c \in PushCaps(self) }

\* picking the highest open position instead
Hole_highest(open) == CHOOSE x \in open : \A y \in open : x >= y

\* the hole do_fill picks
Hole(open) == Lowest(open)

\* a do_fill that leaves the hole in the open set
\* a do_fill that issues a tag of its own for the position it fills again
do_fill_new_tag(self, value) ==
    IF self.open # {}
    THEN LET h == Hole(self.open) IN
         [ok |-> TRUE,
          self |-> [self EXCEPT !.open = @ \ {h}, !.mem[h + 1] = value],
          index |-> Index(self.instance + 1, h),
          forgotten |-> At(self.mem, h)]
    ELSE [ok |-> FALSE, self |-> self, index |-> NoIndex, forgotten |-> Zeroed]

do_fill_keeps_open(self, value) ==
    IF self.open # {}
    THEN LET h == Hole(self.open) IN
         [ok |-> TRUE,
          self |-> [self EXCEPT !.mem[h + 1] = value],
          index |-> Index(self.instance, h),
          forgotten |-> At(self.mem, h)]
    ELSE [ok |-> FALSE, self |-> self, index |-> NoIndex, forgotten |-> Zeroed]

\* IndexedVec::do_fill: Ok(index) with the new state, or Err(value)
do_fill(self, value) ==
    IF self.open # {}
    THEN LET h == Hole(self.open) IN
         [ok |-> TRUE,
          self |-> [self EXCEPT !.open = @ \ {h}, !.mem[h + 1] = value],
          index |-> Index(self.instance, h),
          forgotten |-> At(self.mem, h)]
    ELSE [ok |-> FALSE, self |-> self, index |-> NoIndex, forgotten |-> Zeroed]

\* an assert_instance with the comparison inverted
assert_instance_inverted(self, i) == i # self.instance

\* IndexedVec::assert_instance: TRUE when it returns, FALSE when it panics
assert_instance(self, i) == i = self.instance

\* an add that never fills a hole
add_never_fills(self, value) ==
    UNION { do_push([self EXCEPT !.cap = c], value) :
            c \in IF Len(self.mem) = self.cap
                  THEN Reserve(self, Len(self.mem) \div 3)
                  ELSE {self.cap} }

\* IndexedVec::add: the possible outcomes
add(self, value) ==
    LET f == do_fill(self, value) IN
    IF f.ok
    THEN {[self |-> f.self, index |-> f.index]}
    ELSE LET len == Len(self.mem) IN
         UNION { do_push([self EXCEPT !.cap = c], value) :
                 c \in IF len = self.cap THEN Reserve(self, len \div 3)
                       ELSE {self.cap} }

\* a push that fills holes first, as add does
push_fills_first(self, value) == add(self, value)

\* IndexedVec::push: the possible outcomes
push(self, value) ==
    IF Len(self.mem) # self.cap THEN do_push(self, value) ELSE add(self, value)

\* a take that empties the element before the one its Index names
take_empties_previous(self, i) ==
    [self |-> [self EXCEPT !.mem[IF i > 0 THEN i ELSE 1] = Zeroed,
                           !.open = @ \cup {i}],
     out  |-> At(self.mem, i)]

\* a take that records the position before the one it emptied as open
take_opens_previous(self, i) ==
    [self |-> [self EXCEPT !.mem[i + 1] = Zeroed,
                           !.open = @ \cup {IF i > 0 THEN i - 1 ELSE i}],
     out  |-> At(self.mem, i)]

\* IndexedVec::take past assert_instance: the new state and the value moved out
\* take that gives the store back the slot when it is the last one
take_truncates(self, i) ==
    [self |-> IF i + 1 = Len(self.mem)
              THEN [self EXCEPT !.mem = SubSeq(@, 1, i)]
              ELSE [self EXCEPT !.mem[i + 1] = Zeroed, !.open = @ \cup {i}],
     out  |-> At(self.mem, i)]

take(self, i) ==
    [self |-> [self EXCEPT !.mem[i + 1] = Zeroed, !.open = @ \cup {i}],
     out  |-> At(self.mem, i)]

\* swap that stores the new value and hands the same value back
swap_returns_new(self, i, value) ==
    [self |-> [self EXCEPT !.mem[i + 1] = value], out |-> value]

\* swap that hands the old value back without storing the new one
swap_not_stored(self, i, value) == [self |-> self, out |-> At(self.mem, i)]

\* IndexedVec::swap past assert_instance: the new state and the value moved out
swap(self, i, value) ==
    [self |-> [self EXCEPT !.mem[i + 1] = value], out |-> At(self.mem, i)]

\* a drop that does not consult the open set
DropPositions_all(self) == 0..(Len(self.mem) - 1)

\* Drop for IndexedVec: the positions whose element is dropped (the rest are forgotten)
DropPositions(self) == {i \in 0..(Len(self.mem) - 1) : i \notin self.open}

\* finalizing the elements at positions P of mem
Finalize(count, mem, P) ==
    [v \in DOMAIN count |-> count[v] + Cardinality({i \in P : At(mem, i) = v})]

\* ------------------------------------------------------------ ghost helpers
Without(f, k) == [x \in DOMAIN f \ {k} |-> f[x]]
With(f, k, v) == [x \in DOMAIN f \cup {k} |-> IF x = k THEN v ELSE f[x]]

\* the process goes on: no panic is unwinding and no undefined behaviour happened
Running == ~last.panic /\ ~ub

Panicked(op, h, x, value) ==
    Call(op, h, x, value, Zeroed, TRUE, {})

\* a call that records the position as open before it checks the instance
unwound_opened(self, i) == [self EXCEPT !.open = @ \cup {i}]

\* the vector as a call that panics in assert_instance leaves it: the check is
\* the first statement of get, get_mut, swap and take
unwound(self, i) == self

\* ---------------------------------------------------------------- actions
\* let v = IndexedVec::with_capacity(capacity), stored in the free variable h
Create(h, capacity) ==
    /\ Running
    /\ UNCHANGED owners
    /\ h \notin DOMAIN arena
    /\ created < MaxArenas
    /\ INSTANCE_ID' = fetch_add(INSTANCE_ID)
    /\ arena' = With(arena, h, with_capacity(capacity, INSTANCE_ID))
    /\ serial' = With(serial, h, created + 1)
    /\ created' = created + 1
    /\ freed' = With(freed, h, {})
    /\ last' = Call("with_capacity", h, NoKey, Zeroed, Zeroed, FALSE, {})
    /\ UNCHANGED <<held, nextVal, dropped, returned, ub>>

\* arena[h].add(value)
Add(h, value) ==
    /\ Running
    /\ UNCHANGED owners
    /\ h \in DOMAIN arena
    /\ value = nextVal /\ value <= MaxVals
    /\ Len(arena[h].mem) < MaxLen \/ arena[h].open # {}
    /\ \E r \in add(arena[h], value) :
          /\ arena' = [arena EXCEPT ![h] = r.self]
          /\ held' = With(held, Key(r.index, serial[h]), value)
          /\ last' = Call("add", h, Key(r.index, serial[h]), value, Zeroed, FALSE,
                          freed[h] \cap arena[h].open)
    /\ nextVal' = nextVal + 1
    /\ freed' = [freed EXCEPT ![h] = {}]
    /\ UNCHANGED <<INSTANCE_ID, serial, created, dropped, returned, ub>>

\* arena[h].push(value)
Push(h, value) ==
    /\ Running
    /\ UNCHANGED owners
    /\ h \in DOMAIN arena
    /\ value = nextVal /\ value <= MaxVals
    /\ \/ Len(arena[h].mem) < MaxLen
       \/ Len(arena[h].mem) = arena[h].cap /\ arena[h].open # {}
    /\ \E r \in push(arena[h], value) :
          /\ arena' = [arena EXCEPT ![h] = r.self]
          /\ held' = With(held, Key(r.index, serial[h]), value)
          /\ last' = Call("push", h, Key(r.index, serial[h]), value, Zeroed, FALSE, {})
    /\ nextVal' = nextVal + 1
    /\ UNCHANGED <<INSTANCE_ID, serial, created, dropped, returned, freed, ub>>

\* arena[h].get(&x) and arena[h].get_mut(&mut x): the element the reference names
Get(op, h, x) ==
    /\ Running
    /\ UNCHANGED owners
    /\ h \in DOMAIN arena
    /\ x \in DOMAIN held
    /\ IF ~assert_instance(arena[h], x.ins)
       THEN /\ last' = Panicked(op, h, x, Zeroed)
            /\ arena' = [arena EXCEPT ![h] = unwound(arena[h], x.pos)]
            /\ UNCHANGED ub
       ELSE IF x.pos >= Len(arena[h].mem)
       THEN /\ ub' = TRUE
            /\ \E r \in 0..MaxVals :
                  last' = Call(op, h, x, Zeroed, r, FALSE, {})
            /\ UNCHANGED arena
       ELSE /\ last' = Call(op, h, x, Zeroed,
                            At(arena[h].mem, x.pos), FALSE, {})
            /\ UNCHANGED <<arena, ub>>
    /\ UNCHANGED <<INSTANCE_ID, serial, created, held, nextVal, dropped,
                   returned, freed>>

\* arena[h].swap(&mut x, value)
Swap(h, x, value) ==
    /\ Running
    /\ UNCHANGED owners
    /\ h \in DOMAIN arena
    /\ x \in DOMAIN held
    /\ value = nextVal /\ value <= MaxVals
    /\ nextVal' = nextVal + 1
    /\ IF ~assert_instance(arena[h], x.ins)
       THEN \* the unwinding drops the argument
            /\ last' = Panicked("swap", h, x, value)
            /\ dropped' = [dropped EXCEPT ![value] = @ + 1]
            /\ arena' = [arena EXCEPT ![h] = unwound(arena[h], x.pos)]
            /\ UNCHANGED <<held, returned, ub>>
       ELSE IF x.pos >= Len(arena[h].mem)
       THEN /\ ub' = TRUE
            /\ \E r \in 0..MaxVals :
                  last' = Call("swap", h, x, value, r, FALSE, {})
            /\ UNCHANGED <<arena, held, dropped, returned>>
       ELSE LET r == swap(arena[h], x.pos, value) IN
            /\ arena' = [arena EXCEPT ![h] = r.self]
            /\ held' = [held EXCEPT ![x] = value]
            /\ returned' = returned \cup {r.out}
            /\ last' = Call("swap", h, x, value, r.out, FALSE, {})
            /\ UNCHANGED <<dropped, ub>>
    /\ UNCHANGED <<INSTANCE_ID, serial, created, freed>>

\* arena[h].take(x)
Take(h, x) ==
    /\ Running
    /\ UNCHANGED owners
    /\ h \in DOMAIN arena
    /\ x \in DOMAIN held
    /\ held' = Without(held, x)
    /\ IF ~assert_instance(arena[h], x.ins)
       THEN /\ last' = Panicked("take", h, x, Zeroed)
            /\ arena' = [arena EXCEPT ![h] = unwound(arena[h], x.pos)]
            /\ UNCHANGED <<returned, freed, ub>>
       ELSE IF x.pos >= Len(arena[h].mem)
       THEN /\ ub' = TRUE
            /\ \E r \in 0..MaxVals :
                  last' = Call("take", h, x, Zeroed, r, FALSE, {})
            /\ UNCHANGED <<arena, returned, freed>>
       ELSE LET r == take(arena[h], x.pos) IN
            /\ arena' = [arena EXCEPT ![h] = r.self]
            /\ returned' = returned \cup {r.out}
            /\ freed' = [freed EXCEPT ![h] = @ \cup {x.pos}]
            /\ last' = Call("take", h, x, Zeroed, r.out, FALSE, {})
            /\ UNCHANGED ub
    /\ UNCHANGED <<INSTANCE_ID, serial, created, nextVal, dropped>>

\* a remove that empties the slot without recording it as open
remove_not_opened(self, i) ==
    [self |-> [self EXCEPT !.mem[i + 1] = Zeroed], out |-> At(self.mem, i)]

\* what remove leaves of the vector: that of the take it calls
remove(self, i) == take(self, i)

\* arena[h].remove(x)
Remove(h, x) ==
    /\ Running
    /\ UNCHANGED owners
    /\ h \in DOMAIN arena
    /\ x \in DOMAIN held
    /\ held' = Without(held, x)
    /\ IF ~assert_instance(arena[h], x.ins)
       THEN /\ last' = Panicked("remove", h, x, Zeroed)
            /\ arena' = [arena EXCEPT ![h] = unwound(arena[h], x.pos)]
            /\ UNCHANGED <<dropped, freed, ub>>
       ELSE IF x.pos >= Len(arena[h].mem)
       THEN /\ ub' = TRUE
            /\ last' = Call("remove", h, x, Zeroed, Zeroed, FALSE, {})
            /\ UNCHANGED <<arena, dropped, freed>>
       ELSE LET r == remove(arena[h], x.pos) IN
            /\ arena' = [arena EXCEPT ![h] = r.self]
            /\ dropped' = [dropped EXCEPT ![r.out] = @ + 1]
            /\ freed' = [freed EXCEPT ![h] = @ \cup {x.pos}]
            /\ last' = Call("remove", h, x, Zeroed, Zeroed, FALSE, {})
            /\ UNCHANGED ub
    /\ UNCHANGED <<INSTANCE_ID, serial, created, nextVal, returned>>

\* the IndexedVec in h goes out of scope (also while a panic unwinds)
Drop(h) ==
    /\ ~ub
    /\ UNCHANGED owners
    /\ h \in DOMAIN arena
    /\ arena' = Without(arena, h)
    /\ serial' = Without(serial, h)
    /\ freed' = Without(freed, h)
    /\ dropped' = Finalize(dropped, arena[h].mem, DropPositions(arena[h]))
    /\ last' = Call("drop", h, NoKey, Zeroed, Zeroed, last.panic, arena[h].open)
    /\ UNCHANGED <<INSTANCE_ID, created, held, nextVal, returned, ub>>

\* ---------------------------------------------------------- specifications
\* One IndexedVec, made by the first with_capacity call of the process.
Init ==
    /\ \E capacity \in 0..MaxHint :
          arena = [h \in {"A"} |-> with_capacity(capacity, 0)]
    /\ INSTANCE_ID = fetch_add(0)
    /\ serial = [h \in {"A"} |-> 1]
    /\ created = 1
    /\ held = [x \in {} |-> Zeroed]
    /\ nextVal = 1
    /\ dropped = [v \in 0..MaxVals |-> 0]
    /\ returned = {}
    /\ freed = [h \in {"A"} |-> {}]
    /\ last = Call("with_capacity", "A", NoKey, Zeroed, Zeroed, FALSE, {})
    /\ ub = FALSE
    /\ owners = [x \in {} |-> Zeroed]

Next ==
    \/ \E v \in Vals : Add("A", v)
    \/ \E v \in Vals : Push("A", v)
    \/ \E x \in DOMAIN held : Get("get", "A", x)
    \/ \E x \in DOMAIN held : Get("get_mut", "A", x)
    \/ \E x \in DOMAIN held, v \in Vals : Swap("A", x, v)
    \/ \E x \in DOMAIN held : Take("A", x)
    \/ \E x \in DOMAIN held : Remove("A", x)
    \/ Drop("A")

Spec == Init /\ [][Next]_vars

\* Several IndexedVecs made and dropped in one process, every Index the caller
\* holds presented to every IndexedVec.
InitIso ==
    /\ INSTANCE_ID = 0
    /\ arena = [h \in {} |-> with_capacity(0, 0)]
    /\ serial = [h \in {} |-> 0]
    /\ created = 0
    /\ held = [x \in {} |-> Zeroed]
    /\ nextVal = 1
    /\ dropped = [v \in 0..MaxVals |-> 0]
    /\ returned = {}
    /\ freed = [h \in {} |-> {}]
    /\ last = Call("start", "A", NoKey, Zeroed, Zeroed, FALSE, {})
    /\ ub = FALSE
    /\ owners = [x \in {} |-> Zeroed]

\* the insertions the multi-instance specification follows
Small(h) == h \in DOMAIN arena /\ Len(arena[h].mem) < IsoMaxLen

\* the values the caller creates in the multi-instance specification
IsoVals == 1..IsoMaxVals

NextIso ==
    \/ \E h \in Handles, capacity \in 0..1 : Create(h, capacity)
    \/ \E h \in Handles, v \in IsoVals : Small(h) /\ Add(h, v)
    \/ \E h \in Handles, v \in IsoVals : Small(h) /\ Push(h, v)
    \/ \E h \in Handles, x \in DOMAIN held : Get("get", h, x)
    \/ \E h \in Handles, x \in DOMAIN held : Get("get_mut", h, x)
    \/ \E h \in Handles, x \in DOMAIN held, v \in IsoVals : Swap(h, x, v)
    \/ \E h \in Handles, x \in DOMAIN held : Take(h, x)
    \/ \E h \in Handles, x \in DOMAIN held : Remove(h, x)
    \/ \E h \in Handles : Drop(h)

SpecIso == InitIso /\ [][NextIso]_vars

\* ------------------------------------------------------------------ claims
\* the calls that present an Index
Presenting == {"get", "get_mut", "swap", "take", "remove"}

\* 1 when value v was handed back to the caller, else 0
HandedBack(v) == IF v \in returned THEN 1 ELSE 0

\* C1: every take that returns gives back the value most recently stored under
\* the Index it was given: the value of the add or push that issued it, or of
\* the last swap on it.
C1_TakeReturnsLastStored ==
    [][(last'.op = "take" /\ ~last'.panic /\ ~ub') =>
          /\ last'.index \in DOMAIN held
          /\ last'.ret = held[last'.index]
          /\ last'.ret \in Vals]_vars

\* a take has returned a value after an earlier take or swap returned another
C1_Witness ==
    /\ last.op = "take" /\ ~last.panic
    /\ last.ret \in Vals
    /\ Cardinality(returned) >= 2

\* C2: an Index issued by one IndexedVec and presented to another one (both
\* existing) always makes the call panic.
C2_ForeignIndexAlwaysPanics ==
    (/\ last.op \in Presenting
     /\ last.h \in DOMAIN serial
     /\ last.index.by # serial[last.h]
     /\ \E a \in DOMAIN serial : serial[a] = last.index.by) => last.panic

\* C3: no value is finalized twice or both finalized and handed back, a zeroed
\* slot is never finalized, the values not yet accounted for are exactly those
\* in the occupied slots, and once the vector is dropped every value passed in
\* has been finalized once or handed back.
C3_FinalizedExactlyOnce ==
    /\ dropped[Zeroed] = 0
    /\ \A v \in Vals : dropped[v] + HandedBack(v) <= 1
    /\ "A" \in DOMAIN arena =>
          \A v \in 1..(nextVal - 1) :
             (dropped[v] + HandedBack(v) = 0) <=>
                (\E i \in 0..(Len(arena["A"].mem) - 1) :
                    i \notin arena["A"].open /\ At(arena["A"].mem, i) = v)
    /\ "A" \notin DOMAIN arena =>
          \A v \in 1..(nextVal - 1) : dropped[v] + HandedBack(v) = 1

\* the vector was dropped with a free slot and an occupied one, after a value
\* was handed back and another was removed
C3_Witness ==
    /\ last.op = "drop" /\ last.holes # {}
    /\ returned # {}
    /\ Cardinality({v \in Vals : dropped[v] = 1}) >= 2

\* the one vector of Spec
Vec == arena["A"]

\* index x of the one vector resolves, past validation, to the element it names
Resolves(v, x) ==
    /\ assert_instance(v, x.ins)
    /\ x.pos < Len(v.mem)
    /\ At(v.mem, x.pos) \in Vals

\* C4 as stated: the add that follows a take or remove returns the position
\* that call freed, and neither length nor capacity grows.
C4_NextAddReusesFreedSlot ==
    [][(last.op \in {"take", "remove"} /\ last'.op = "add") =>
          /\ last'.index.pos = last.index.pos
          /\ Len(Vec'.mem) = Len(Vec.mem)
          /\ Vec'.cap = Vec.cap]_vars

\* C4 amended: when a position freed by take or remove since the previous add
\* is still open, the next add returns the lowest open position, which is the
\* freed one exactly when no lower position is open, and neither length nor
\* capacity grows.
C4_NextAddReusesLowestFreed ==
    [][(last'.op = "add" /\ freed["A"] \cap Vec.open # {}) =>
          /\ last'.index.pos \in Vec.open
          /\ \A q \in Vec.open : last'.index.pos <= q
          /\ \A p \in freed["A"] \cap Vec.open :
                (last'.index.pos = p) <=> ~(\E q \in Vec.open : q < p)
          /\ last'.holes = freed["A"] \cap Vec.open
          /\ Len(Vec'.mem) = Len(Vec.mem)
          /\ Vec'.cap = Vec.cap]_vars

\* an add came after two positions were freed and reused the lower of them
C4_Witness ==
    /\ last.op = "add"
    /\ Cardinality(last.holes) >= 2
    /\ last.index.pos \in last.holes
    /\ \E p \in last.holes : p > last.index.pos

\* C5: add fills the lowest open position when there is one, leaving length
\* and capacity alone; otherwise it appends at the previous length, and the
\* capacity changes only when the previous length was the capacity.
C5_AddPolicy ==
    [][last'.op = "add" =>
          IF Vec.open # {}
          THEN /\ last'.index.pos \in Vec.open
               /\ \A q \in Vec.open : last'.index.pos <= q
               /\ Vec'.open = Vec.open \ {last'.index.pos}
               /\ Len(Vec'.mem) = Len(Vec.mem)
               /\ Vec'.cap = Vec.cap
          ELSE /\ last'.index.pos = Len(Vec.mem)
               /\ Len(Vec'.mem) = Len(Vec.mem) + 1
               /\ Vec'.open = {}
               /\ Vec'.cap >= Vec.cap
               /\ Vec'.cap # Vec.cap => Len(Vec.mem) = Vec.cap]_vars

\* an add filled the lowest of several holes, below the capacity
C5_Witness ==
    /\ last.op = "add"
    /\ "A" \in DOMAIN arena
    /\ Vec.open # {}
    /\ \A q \in Vec.open : last.index.pos < q
    /\ Len(Vec.mem) < Vec.cap

\* C6: below the capacity push appends at the previous length and leaves the
\* open set alone; at the capacity it does what add does: it fills the lowest
\* open position, or appends and grows when none is open.  Two pushes in a row
\* below the capacity return increasing positions.
C6_PushPolicy ==
    [][last'.op = "push" =>
          /\ IF Len(Vec.mem) # Vec.cap
             THEN /\ last'.index.pos = Len(Vec.mem)
                  /\ Len(Vec'.mem) = Len(Vec.mem) + 1
                  /\ Vec'.open = Vec.open
                  /\ Vec'.cap = Vec.cap
             ELSE /\ \E r \in add(Vec, last'.value) :
                        Vec' = r.self /\ last'.index.pos = r.index.pos
                  /\ IF Vec.open # {}
                     THEN /\ last'.index.pos \in Vec.open
                          /\ \A q \in Vec.open : last'.index.pos <= q
                          /\ Len(Vec'.mem) = Len(Vec.mem)
                          /\ Vec'.cap = Vec.cap
                     ELSE /\ last'.index.pos = Len(Vec.mem)
                          /\ Vec'.cap > Vec.cap
          /\ Vec'.cap # Vec.cap => (Len(Vec.mem) = Vec.cap /\ Vec.open = {})
          /\ (last.op = "push" /\ Len(Vec.mem) # Vec.cap) =>
                last'.index.pos > last.index.pos]_vars

\* a push appended below the capacity although a hole was open
C6_Witness ==
    /\ last.op = "push"
    /\ "A" \in DOMAIN arena
    /\ Vec.open # {}
    /\ last.index.pos = Len(Vec.mem) - 1
    /\ \E q \in Vec.open : q < last.index.pos

\* C7: an add or push that grows the capacity leaves every live Index valid
\* and resolving to the value it resolved to before.
C7_GrowthKeepsIndices ==
    [][(last'.op \in {"add", "push"} /\ Vec'.cap > Vec.cap) =>
          \A x \in DOMAIN held :
             /\ x \in DOMAIN held'
             /\ Resolves(Vec', x)
             /\ At(Vec'.mem, x.pos) = At(Vec.mem, x.pos)
             /\ At(Vec'.mem, x.pos) = held[x]]_vars

\* the append of the last element grew the capacity (no earlier growth leaves
\* this capacity at this length) while Indices issued before it were live
C7_Witness ==
    /\ last.op \in {"add", "push"}
    /\ "A" \in DOMAIN arena
    /\ Len(Vec.mem) = MaxLen
    /\ last.index.pos = MaxLen - 1
    /\ Vec.cap = MaxLen + GrowSlack
    /\ Vec.cap > MaxHint
    /\ Cardinality(DOMAIN held) >= 3
    /\ \A x \in DOMAIN held : At(Vec.mem, x.pos) = held[x]

\* C8: the open set lies within the length; an open position holds no value;
\* every live Index names a position below the length that is not open and
\* holds a value, and carries the vector's instance.
C8_SlotInvariant ==
    "A" \in DOMAIN arena =>
       /\ Vec.open \subseteq 0..(Len(Vec.mem) - 1)
       /\ \A i \in Vec.open : At(Vec.mem, i) = Zeroed
       /\ \A x \in DOMAIN held :
             /\ x.pos \notin Vec.open
             /\ Resolves(Vec, x)

\* a freed position was refilled while another position is open and an Index is live
C8_Witness ==
    /\ "A" \in DOMAIN arena
    /\ last.op = "push"
    /\ Vec.open # {}
    /\ last.index.pos < Len(Vec.mem) - 1
    /\ Cardinality(DOMAIN held) >= 2

\* C9: swap returns the value that was in the slot and leaves the new one
\* there, keeps the Index live and valid, and changes neither another slot nor
\* the open set, the length or the instance.
C9_SwapFrame ==
    [][(last'.op = "swap" /\ ~last'.panic /\ ~ub') =>
          /\ last'.ret = At(Vec.mem, last'.index.pos)
          /\ last'.ret = held[last'.index]
          /\ At(Vec'.mem, last'.index.pos) = last'.value
          /\ last'.index \in DOMAIN held'
          /\ DOMAIN held' = DOMAIN held
          /\ Resolves(Vec', last'.index)
          /\ \A i \in 0..(Len(Vec.mem) - 1) :
                i # last'.index.pos => At(Vec'.mem, i) = At(Vec.mem, i)
          /\ Vec'.open = Vec.open
          /\ Len(Vec'.mem) = Len(Vec.mem)
          /\ Vec'.cap = Vec.cap
          /\ Vec'.instance = Vec.instance]_vars

\* a swap returned the old value of its slot and left the new one there
C9_Witness ==
    /\ last.op = "swap" /\ ~last.panic
    /\ "A" \in DOMAIN arena
    /\ last.ret \in Vals /\ last.ret \in returned
    /\ last.index \in DOMAIN held
    /\ At(Vec.mem, last.index.pos) = last.value
    /\ held[last.index] = last.value

\* C10: remove leaves the vector as take leaves it from the same state: the
\* position open, the slot zeroed, the length and the other slots as before,
\* the Index consumed; the value take would return is finalized once by
\* remove and handed back, not finalized, by take.
C10_RemoveIsTakeDiscarding ==
    [][(last'.op \in {"take", "remove"} /\ ~last'.panic /\ ~ub') =>
          LET i == last'.index.pos
              out == At(Vec.mem, i)
          IN  /\ Vec'.open = Vec.open \cup {i}
              /\ At(Vec'.mem, i) = Zeroed
              /\ Len(Vec'.mem) = Len(Vec.mem)
              /\ \A j \in 0..(Len(Vec.mem) - 1) :
                    j # i => At(Vec'.mem, j) = At(Vec.mem, j)
              /\ Vec'.cap = Vec.cap /\ Vec'.instance = Vec.instance
              /\ DOMAIN held' = DOMAIN held \ {last'.index}
              /\ out = held[last'.index]
              /\ IF last'.op = "remove"
                 THEN /\ dropped' = [dropped EXCEPT ![out] = 1]
                      /\ dropped[out] = 0
                      /\ returned' = returned
                      /\ last'.ret = Zeroed
                 ELSE /\ dropped' = dropped
                      /\ returned' = returned \cup {out}
                      /\ out \notin returned
                      /\ last'.ret = out]_vars

\* a remove finalized the value of its slot and opened the position
C10_Witness ==
    /\ last.op = "remove" /\ ~last.panic
    /\ "A" \in DOMAIN arena
    /\ last.index.pos \in Vec.open
    /\ \E v \in Vals : dropped[v] = 1 /\ v \notin returned


\* C11: an Index that is not passed to take or remove keeps its slot: after
\* every call on the vector its position is not open and still holds a value,
\* and no add or push issues that position again.
C11_UnconsumedIndexKeepsSlot ==
    [][\A x \in DOMAIN held :
          (x \in DOMAIN held' /\ "A" \in DOMAIN arena') =>
             /\ x.pos \notin Vec'.open
             /\ x.pos < Len(Vec'.mem)
             /\ At(Vec'.mem, x.pos) \in Vals
             /\ (last'.op \in {"add", "push"} /\ last' # last) =>
                   last'.index.pos # x.pos]_vars

\* an Index issued first is still live after another Index was taken and the
\* freed position was issued again
C11_Witness ==
    /\ last.op \in {"add", "push"}
    /\ "A" \in DOMAIN arena
    /\ last.index.pos > 0
    /\ last.index.pos < Len(Vec.mem) - 1
    /\ \E x \in DOMAIN held : x.pos = 0 /\ held[x] = 1
    /\ \E x \in DOMAIN held : x.pos = Len(Vec.mem) - 1


\* C12: every IndexedVec gets an instance number that no other IndexedVec of
\* the process has, whichever thread created it and in whatever order the
\* with_capacity calls interleave.
C12_InstanceTagsUnique ==
    \A a \in DOMAIN arena, b \in DOMAIN arena :
       a # b => arena[a].instance # arena[b].instance


\* --------------------------------------------- one vector shared by reference
\* a get_mut that always names the first element
get_mut_first(self, i) == 0

\* IndexedVec::get and get_mut past assert_instance: the position of the
\* element the returned reference names
get_mut(self, i) == i

\* what an owner holds besides its Index: where it is in a swap, the value it
\* read and the value it is storing, the value its slot would hold had it run
\* alone (solo), the value its last call returned (ret) and the value that call
\* would have returned had it run alone (want)
Owner(pc, tmp, arg, solo, ret, want) ==
    [pc |-> pc, tmp |-> tmp, arg |-> arg, solo |-> solo, ret |-> ret, want |-> want]

\* the vector is filled by its creator, before it is shared
Fill(value) ==
    /\ DOMAIN owners = {}
    /\ Len(arena["A"].mem) < MaxOwners
    /\ Push("A", value)

\* the creator hands every Index to an owner of its own and shares &IndexedVec
Share ==
    /\ Running
    /\ DOMAIN owners = {}
    /\ DOMAIN held # {}
    /\ owners' = [x \in DOMAIN held |->
                     Owner("idle", Zeroed, Zeroed, held[x], Zeroed, Zeroed)]
    /\ last' = Call("share", "A", NoKey, Zeroed, Zeroed, FALSE, {})
    /\ UNCHANGED <<INSTANCE_ID, arena, serial, created, held, nextVal, dropped,
                   returned, freed, ub>>

\* the owner of x reads through get(&x) or get_mut(&mut x)
OwnerGet(op, x) ==
    /\ Running
    /\ x \in DOMAIN owners /\ owners[x].pc = "idle"
    /\ IF ~assert_instance(arena["A"], x.ins)
       THEN last' = Panicked(op, "A", x, Zeroed) /\ UNCHANGED owners
       ELSE LET r == At(arena["A"].mem, get_mut(arena["A"], x.pos)) IN
            /\ owners' = [owners EXCEPT ![x].ret = r, ![x].want = owners[x].solo]
            /\ last' = Call(op, "A", x, Zeroed, r, FALSE, {})
    /\ UNCHANGED <<INSTANCE_ID, arena, serial, created, held, nextVal, dropped,
                   returned, freed, ub>>

\* the owner of x assigns through the reference get_mut(&mut x) returns; the
\* assignment drops the value that was there
OwnerWrite(x, value) ==
    /\ Running
    /\ x \in DOMAIN owners /\ owners[x].pc = "idle"
    /\ value = nextVal /\ value <= MaxVals
    /\ nextVal' = nextVal + 1
    /\ IF ~assert_instance(arena["A"], x.ins)
       THEN /\ last' = Panicked("get_mut", "A", x, value)
            /\ dropped' = [dropped EXCEPT ![value] = @ + 1]
            /\ UNCHANGED <<arena, held, owners>>
       ELSE LET i == get_mut(arena["A"], x.pos) IN
            /\ arena' = [arena EXCEPT !["A"].mem[i + 1] = value]
            /\ dropped' = [dropped EXCEPT ![At(arena["A"].mem, i)] = @ + 1]
            /\ held' = [held EXCEPT ![x] = value]
            /\ owners' = [owners EXCEPT ![x].solo = value]
            /\ last' = Call("get_mut", "A", x, value, Zeroed, FALSE, {})
    /\ UNCHANGED <<INSTANCE_ID, serial, created, returned, freed, ub>>

\* swap(&mut x, value), first half: past both assert_instance calls, mem::swap
\* has read the element
OwnerSwapRead(x, value) ==
    /\ Running
    /\ x \in DOMAIN owners /\ owners[x].pc = "idle"
    /\ value = nextVal /\ value <= MaxVals
    /\ nextVal' = nextVal + 1
    /\ IF ~assert_instance(arena["A"], x.ins)
       THEN /\ last' = Panicked("swap", "A", x, value)
            /\ dropped' = [dropped EXCEPT ![value] = @ + 1]
            /\ UNCHANGED owners
       ELSE /\ owners' = [owners EXCEPT
                ![x].pc = "swap",
                ![x].tmp = At(arena["A"].mem, get_mut(arena["A"], x.pos)),
                ![x].arg = value]
            /\ UNCHANGED <<last, dropped>>
    /\ UNCHANGED <<INSTANCE_ID, arena, serial, created, held, returned, freed, ub>>

\* swap(&mut x, value), second half: mem::swap writes the element and swap
\* returns what was read
OwnerSwapWrite(x) ==
    /\ Running
    /\ x \in DOMAIN owners /\ owners[x].pc = "swap"
    /\ LET r == swap(arena["A"], get_mut(arena["A"], x.pos), owners[x].arg) IN
          /\ arena' = [arena EXCEPT !["A"] = r.self]
          /\ returned' = returned \cup {owners[x].tmp}
          /\ held' = [held EXCEPT ![x] = owners[x].arg]
          /\ owners' = [owners EXCEPT ![x].pc = "idle",
                                      ![x].ret = owners[x].tmp,
                                      ![x].want = owners[x].solo,
                                      ![x].solo = owners[x].arg]
          /\ last' = Call("swap", "A", x, owners[x].arg, owners[x].tmp, FALSE, {})
    /\ UNCHANGED <<INSTANCE_ID, serial, created, nextVal, dropped, freed, ub>>

NextShare ==
    \/ \E v \in Vals : Fill(v)
    \/ Share
    \/ \E x \in DOMAIN owners : OwnerGet("get", x)
    \/ \E x \in DOMAIN owners : OwnerGet("get_mut", x)
    \/ \E x \in DOMAIN owners, v \in Vals : OwnerWrite(x, v)
    \/ \E x \in DOMAIN owners, v \in Vals : OwnerSwapRead(x, v)
    \/ \E x \in DOMAIN owners : OwnerSwapWrite(x)

\* One IndexedVec filled by its creator and then shared by reference among the
\* owners of its Indices, whose calls interleave.
SpecShare == Init /\ [][NextShare]_vars

\* C13: whatever the interleaving of the owners' get, get_mut and swap calls,
\* every call returns what it would return had its owner run alone, and every
\* slot holds what its owner alone would have left there.
C13_OwnersDoNotInterfere ==
    \A x \in DOMAIN owners :
       /\ owners[x].ret = owners[x].want
       /\ At(arena["A"].mem, x.pos) = owners[x].solo
       /\ owners[x].pc = "swap" => owners[x].tmp = owners[x].solo
       /\ arena["A"].open = {}

\* one owner is between the two halves of a swap while another owner has
\* completed a later write or swap and read its own value back
C13_Witness ==
    \E x \in DOMAIN owners, y \in DOMAIN owners :
       /\ x # y
       /\ owners[x].pc = "swap"
       /\ owners[y].pc = "idle"
       /\ owners[y].solo > owners[x].arg
       /\ owners[y].ret = owners[y].solo
       /\ last.op = "get" /\ last.index = y


\* C14: a call panics exactly when it presents an Index whose instance number
\* differs from the vector's; with equal numbers get, get_mut, swap, take and
\* remove go through whatever the position is, and add, push and with_capacity
\* never panic.
C14_OnlyInstanceMismatchFails ==
    /\ last.op \in {"with_capacity", "add", "push"} => ~last.panic
    /\ (last.op \in Presenting /\ last.h \in DOMAIN arena) =>
          (last.panic <=> last.index.ins # arena[last.h].instance)

\* a call with a matching instance number and a position beyond the length
\* went through without a panic
C14_Witness ==
    /\ last.op \in Presenting /\ ~last.panic
    /\ last.h \in DOMAIN arena
    /\ last.index.ins = arena[last.h].instance
    /\ last.index.pos >= Len(arena[last.h].mem)
    /\ ub


\* C15: a call leaves alone every live Index other than the one it is given:
\* add, push, and swap, take or remove on another Index do not change the
\* value the Index resolves to, also when add refills a position just freed.
C15_OtherIndicesUndisturbed ==
    [][(last'.op \in {"add", "push", "swap", "take", "remove"} /\ last' # last) =>
          \A x \in DOMAIN held :
             (last'.op \in {"add", "push"} \/ x # last'.index) =>
                /\ x \in DOMAIN held'
                /\ held'[x] = held[x]
                /\ Resolves(Vec', x)
                /\ At(Vec'.mem, x.pos) = At(Vec.mem, x.pos)]_vars

\* an add refilled the position a take had just freed, next to a live Index
\* that still resolves to the value pushed under it
C15_Witness ==
    /\ last.op = "add"
    /\ "A" \in DOMAIN arena
    /\ last.index.pos \in last.holes
    /\ \E x \in DOMAIN held :
          /\ x.pos = last.index.pos + 1
          /\ held[x] < last.value
          /\ At(Vec.mem, x.pos) = held[x]


\* C16: the (instance, position) pair of every Index add or push returns
\* differs from the pair of every Index, of any existing IndexedVec, that was
\* issued and not yet consumed.
C16_IssuedIndexIsFresh ==
    [][(last'.op \in {"add", "push"} /\ last' # last) =>
          \A x \in DOMAIN held :
             (\E a \in DOMAIN serial : serial[a] = x.by) =>
                ~(x.ins = last'.index.ins /\ x.pos = last'.index.pos)]_vars


\* C17: a get, get_mut, swap, take or remove that panics leaves every vector,
\* and the instance counter, as it was; the value given to a swap that panics
\* is stored nowhere and is finalized once by the unwinding.
C17_PanicLeavesVectorUnchanged ==
    [][(last'.panic /\ last'.op \in Presenting /\ last' # last) =>
          /\ arena' = arena
          /\ INSTANCE_ID' = INSTANCE_ID
          /\ last'.op = "swap" =>
                /\ \A h \in DOMAIN arena' :
                      \A i \in 1..Len(arena'[h].mem) : arena'[h].mem[i] # last'.value
                /\ dropped'[last'.value] = 1]_vars

\* a take panicked on a vector that holds a value at the position of the Index
\* it was given: the value is still there and the position is not open
C17_Witness ==
    /\ last.panic /\ last.op = "take"
    /\ last.h \in DOMAIN arena
    /\ last.index.pos < Len(arena[last.h].mem)
    /\ At(arena[last.h].mem, last.index.pos) \in Vals
    /\ last.index.pos \notin arena[last.h].open


\* C18: the length of the store never decreases; every position below the
\* length is open or is the position of exactly one Index that was issued and
\* not consumed, never both; the occupied count, length minus open positions,
\* goes up by one with each add or push and down by one with each take or remove.
C18_SlotAccounting ==
    [][("A" \in DOMAIN arena /\ "A" \in DOMAIN arena') =>
          LET n  == Len(Vec.mem) - Cardinality(Vec.open)
              n1 == Len(Vec'.mem) - Cardinality(Vec'.open)
          IN  /\ Len(Vec'.mem) >= Len(Vec.mem)
              /\ Vec'.open \subseteq 0..(Len(Vec'.mem) - 1)
              /\ \A p \in 0..(Len(Vec'.mem) - 1) :
                    Cardinality({x \in DOMAIN held' : x.pos = p})
                       = IF p \in Vec'.open THEN 0 ELSE 1
              /\ n1 = Cardinality(DOMAIN held')
              /\ n1 = n + CASE last'.op \in {"add", "push"} -> 1
                            [] last'.op \in {"take", "remove"} -> 0 - 1
                            [] OTHER -> 0]_vars

\* after a take of the last position: the length is what it was, two positions
\* are open and the other two each belong to one Index
C18_Witness ==
    /\ "A" \in DOMAIN arena
    /\ last.op = "take" /\ last.index.pos = Len(Vec.mem) - 1
    /\ Len(Vec.mem) = MaxLen
    /\ Cardinality(Vec.open) = 2
    /\ Cardinality(DOMAIN held) = MaxLen - 2


\* C19 as stated: when an add or push issues again the position the take or
\* remove before it freed, the consumed Index does not pass the validation of
\* get, get_mut, swap and take for the value now stored there.
C19_ConsumedIndexNotAccepted ==
    [][(/\ last.op \in {"take", "remove"}
        /\ last'.op \in {"add", "push"}
        /\ last'.index.pos = last.index.pos) =>
          ~(/\ Resolves(Vec', last.index)
            /\ At(Vec'.mem, last.index.pos) = last'.value)]_vars

\* C19 amended: every Index the vector issues or consumes carries the one tag
\* of the vector, so the Index issued for a position that was freed is the same
\* (instance, position) pair as the consumed one, and the consumed pair passes
\* the validation and names the value now stored there.
C19_ReissuedIndexIsSamePair ==
    [][/\ last'.op \in {"add", "push", "take", "remove"} =>
             /\ last'.index.ins = Vec.instance
             /\ last'.h \in DOMAIN arena' => Vec'.instance = Vec.instance
       /\ (/\ last.op \in {"take", "remove"}
           /\ last'.op \in {"add", "push"}
           /\ last'.index.pos = last.index.pos) =>
             /\ last'.index.ins = last.index.ins
             /\ Resolves(Vec', last.index)
             /\ At(Vec'.mem, last.index.pos) = last'.value]_vars

\* an add has just issued a position that was freed since the add before it,
\* under the tag of the vector, and the new value is stored there
C19_Witness ==
    /\ "A" \in DOMAIN arena
    /\ last.op = "add"
    /\ last.index.pos \in last.holes
    /\ last.index.ins = Vec.instance
    /\ At(Vec.mem, last.index.pos) = last.value

====
